---- MODULE Spec2Model ----
(***************************************************************************)
(* Model of src/ocr_plugin.py: the Google Cloud Vision OCR engine plugin   *)
(* for ocrmypdf.  The engine adapter (generate_hocr) is a sequential       *)
(* handler whose steps are separated by its external effects (environment  *)
(* read, image read, POST, file writes); the transcoder (_generate_hocr)   *)
(* and its helpers (_get_bbox, _get_confidence, the HTML escaping) are     *)
(* pure functions, modelled as operators.                                  *)
(*                                                                         *)
(* Representation.                                                         *)
(*  - A Python dict key that may be absent is an optional value            *)
(*    [has, v]; d.get(k, default) is Get(opt, default).                    *)
(*  - A Python str that the code inspects character by character (symbol   *)
(*    and word text) is a sequence of one-character strings.               *)
(*  - A Python float is an IEEE-754 binary64 value [m, e]: m is the        *)
(*    significand as a sequence of limbs, most significant first, and the  *)
(*    value is m * 2^e.  Addition, division and multiplication round to    *)
(*    nearest, ties to even, as the hardware does.  A decimal literal      *)
(*    n/d of the JSON response (or of the source) is the binary64 value    *)
(*    nearest to it.                                                       *)
(*  - The markup document is the list `lines` the code joins with "\n";    *)
(*    a line is a record [tag, id, bbox, conf, text], tag being the        *)
(*    line's fixed text and the other fields its formatted values.  A      *)
(*    bbox string "x1 y1 x2 y2" is the tuple <<x1, y1, x2, y2>>.           *)
(***************************************************************************)
EXTENDS Integers, Sequences, FiniteSets, TLC

VARIABLES
    pc,         \* generate_hocr: position of the invocation
    api_key,    \* generate_hocr: value read from GOOGLE_VISION_API_KEY
    response,   \* generate_hocr: what requests.post returned
    events,     \* generate_hocr: external effects of this invocation, in order
    files,      \* the two output paths of this invocation
    outcome,    \* generate_hocr: how the invocation ended
    fn,         \* pure functions: the function applied
    arg,        \* pure functions: its argument
    ret         \* pure functions: its return value

vars == <<pc, api_key, response, events, files, outcome, fn, arg, ret>>

\* ------------------------------------------------------------------ bounds

MaxCoord == 1
MaxLen == 4
MaxSyms == 2
MaxNodes == 5

\* ------------------------------------------------------- optional dict keys

Some(v) == [has |-> TRUE, v |-> v]

None(d) == [has |-> FALSE, v |-> d]

Get(opt, default) == IF opt.has THEN opt.v ELSE default

Max(a, b) == IF a >= b THEN a ELSE b

Min(a, b) == IF a <= b THEN a ELSE b

\* ------------------------------------------------------ binary64 arithmetic

\* A significand is a sequence of limbs, most significant first, in base 2^15.
Base == 2^15

Zeros(n) == [i \in 1..n |-> 0]

RECURSIVE StripLead(_)
StripLead(m) ==
    IF m = <<>> THEN <<>>
    ELSE IF Head(m) = 0 THEN StripLead(Tail(m)) ELSE m

RECURSIVE AddLimbs(_, _, _)
AddLimbs(a, b, carry) ==
    IF a = <<>>
    THEN (IF carry = 0 THEN <<>> ELSE <<carry>>)
    ELSE LET n == Len(a)
             s == a[n] + b[n] + carry
         IN  Append(AddLimbs(SubSeq(a, 1, n - 1), SubSeq(b, 1, n - 1), s \div Base),
                    s % Base)

RECURSIVE MulSmall(_, _, _)
MulSmall(m, k, carry) ==
    IF m = <<>>
    THEN (IF carry = 0 THEN <<>> ELSE <<carry>>)
    ELSE LET n == Len(m)
             t == m[n] * k + carry
         IN  Append(MulSmall(SubSeq(m, 1, n - 1), k, t \div Base), t % Base)

\* Division by a small integer: <<quotient limbs, remainder>>.
RECURSIVE DivSmall(_, _, _)
DivSmall(m, n, rem) ==
    IF m = <<>> THEN <<<<>>, rem>>
    ELSE LET t == rem * Base + Head(m)
             d == DivSmall(Tail(m), n, t % n)
         IN  <<(<<t \div n>> \o d[1]), d[2]>>

RECURSIVE ToInt(_)
ToInt(m) == IF m = <<>> THEN 0 ELSE Base * ToInt(SubSeq(m, 1, Len(m) - 1)) + m[Len(m)]

BitLen(x) == CHOOSE k \in 0..15 : x < 2^k /\ (k = 0 \/ x >= 2^(k - 1))

\* Number of significant bits of a significand without leading zero limbs.
NBits(m) == IF m = <<>> THEN 0 ELSE (Len(m) - 1) * 15 + BitLen(m[1])

ShiftLeft(m, s) == MulSmall(m, 2^(s % 15), 0) \o Zeros(s \div 15)

\* <<m shifted right by s bits, whether a dropped bit was 1>>
ShiftRightSticky(m, s) ==
    LET whole == Min(s \div 15, Len(m))
        kept  == SubSeq(m, 1, Len(m) - whole)
        gone  == SubSeq(m, Len(m) - whole + 1, Len(m))
        d     == DivSmall(kept, 2^(s % 15), 0)
    IN  <<d[1], d[2] # 0 \/ (\E i \in 1..Len(gone) : gone[i] # 0)>>

FZero == [m |-> <<>>, e |-> 0]

\* Exact sum of two non-negative values, before rounding.
AddExact(x, y) ==
    IF x.m = <<>> THEN y
    ELSE IF y.m = <<>> THEN x
    ELSE LET e  == Min(x.e, y.e)
             xm == ShiftLeft(x.m, x.e - e)
             ym == ShiftLeft(y.m, y.e - e)
             n  == Max(Len(xm), Len(ym))
         IN  [m |-> AddLimbs(Zeros(n - Len(xm)) \o xm, Zeros(n - Len(ym)) \o ym, 0),
              e |-> e]

\* Round an exact value (sticky: it has non-zero bits beyond w.m) to the 53
\* significant bits of binary64, to nearest, ties to even.
RoundD(w, sticky) ==
    LET m == StripLead(w.m)
        n == NBits(m)
    IN  IF m = <<>> THEN FZero
        ELSE IF n <= 53 THEN [m |-> m, e |-> w.e]
        ELSE LET s     == ShiftRightSticky(m, n - 54)
                 guard == s[1][Len(s[1])] % 2
                 q     == DivSmall(s[1], 2, 0)[1]
                 odd   == q[Len(q)] % 2 = 1
                 up    == guard = 1 /\ (sticky \/ s[2] \/ odd)
             IN  [m |-> IF up THEN AddLimbs(q, Append(Zeros(Len(q) - 1), 1), 0) ELSE q,
                  e |-> w.e + (n - 53)]

FAdd(x, y) == RoundD(AddExact(x, y), FALSE)

\* float * int: the int converts exactly, the product is rounded once.
FMulInt(x, k) == RoundD([m |-> MulSmall(x.m, k, 0), e |-> x.e], FALSE)

\* float / int: the quotient is rounded once.
FDivInt(x, n) ==
    LET d == DivSmall(x.m \o Zeros(5), n, 0)
    IN  RoundD([m |-> d[1], e |-> x.e - 75], d[2] # 0)

FromInt(k) == [m |-> <<k>>, e |-> 0]

\* The decimal literal n/d (0.9 is Dec(9, 10)) as the nearest binary64 value.
Dec(n, d) == [n |-> n, d |-> d]

FromDecimal(c) == FDivInt(FromInt(c.n), c.d)

\* int(x) for x >= 0: truncation.
Trunc(x) ==
    IF x.e >= 0 THEN ToInt(ShiftLeft(x.m, x.e))
    ELSE ToInt(StripLead(ShiftRightSticky(x.m, -x.e)[1]))

\* sum(confidences): 0 + c1 + c2 + ..., left to right, each sum rounded.
\* (CPython from 3.12 on compensates the rounding errors of a float sum; for
\* one or two terms the result is the same.)
RECURSIVE FSum(_)
FSum(cs) ==
    IF cs = <<>> THEN FZero
    ELSE FAdd(FSum(SubSeq(cs, 1, Len(cs) - 1)), cs[Len(cs)])

\* ------------------------------------------------------------ _get_confidence

DefaultConfidence == Dec(9, 10)

_get_confidence(word) ==
    LET symbols == Get(word.symbols, <<>>)
    IN  IF symbols = <<>> THEN 90
        ELSE LET confidences ==
                     [i \in 1..Len(symbols) |->
                         FromDecimal(Get(symbols[i].confidence, DefaultConfidence))]
                 avg == FDivInt(FSum(confidences), Len(confidences))
             IN  Trunc(FMulInt(avg, 100))

\* ------------------------------------------------------------------ _get_bbox

\* max(v, 0)
Clamp0(v) == Max(v, 0)

_get_bbox_second_vertex(bounding_box) ==
    LET vertices == Get(bounding_box.vertices, <<>>)
    IN  IF Len(vertices) < 4 THEN <<0, 0, 0, 0>>
        ELSE <<Clamp0(Get(vertices[1].x, 0)), Clamp0(Get(vertices[1].y, 0)),
               Clamp0(Get(vertices[2].x, 0)), Clamp0(Get(vertices[2].y, 0))>>

\* vertices[0] and vertices[2] of the source are vertices[1] and vertices[3] here.
_get_bbox(bounding_box) ==
    LET vertices == Get(bounding_box.vertices, <<>>)
    IN  IF Len(vertices) < 4 THEN <<0, 0, 0, 0>>
        ELSE <<Clamp0(Get(vertices[1].x, 0)), Clamp0(Get(vertices[1].y, 0)),
               Clamp0(Get(vertices[3].x, 0)), Clamp0(Get(vertices[3].y, 0))>>

\* ------------------------------------------------------------------- escaping

\* str.replace(old, new) for a one-character old.
RECURSIVE Replace(_, _, _)
Replace(s, old, new) ==
    IF s = <<>> THEN <<>>
    ELSE (IF Head(s) = old THEN new ELSE <<Head(s)>>) \o Replace(Tail(s), old, new)

AmpEntity == <<"&", "a", "m", "p", ";">>

LtEntity == <<"&", "l", "t", ";">>

GtEntity == <<"&", "g", "t", ";">>

QuotEntity == <<"&", "q", "u", "o", "t", ";">>

EscapeHtmlAmpLast(word_text) ==
    Replace(Replace(Replace(Replace(word_text, "<", LtEntity), ">", GtEntity),
                    "\"", QuotEntity), "&", AmpEntity)

EscapeHtml(word_text) ==
    Replace(Replace(Replace(Replace(word_text, "&", AmpEntity), "<", LtEntity),
                    ">", GtEntity), "\"", QuotEntity)

\* "".join(symbol.get("text", "") for symbol in word.get("symbols", []))
RECURSIVE JoinText(_)
JoinText(symbols) ==
    IF symbols = <<>> THEN <<>>
    ELSE Get(Head(symbols).text, <<>>) \o JoinText(Tail(symbols))

Whitespace == {" ", "\t", "\n"}

\* not word_text.strip()
IsBlank(word_text) == \A i \in 1..Len(word_text) : word_text[i] \in Whitespace

\* ------------------------------------------------------------- _generate_hocr

Line(tag, id, bbox, conf, text) ==
    [tag |-> tag, id |-> id, bbox |-> bbox, conf |-> conf, text |-> text]

\* A line without formatted values.
Fixed(tag) == Line(tag, 0, <<>>, 0, <<>>)

EmptyDict == [vertices |-> None(<<>>)]

\* A key whose value is the JSON null.
JsonNull(d) == [has |-> TRUE, v |-> d, null |-> TRUE]

IsNull(opt) == "null" \in DOMAIN opt

Preamble(width, height) ==
    << Fixed("<?xml version=\"1.0\" encoding=\"UTF-8\"?>"),
       Fixed("<!DOCTYPE html PUBLIC \"-//W3C//DTD XHTML 1.0 Transitional//EN\""),
       Fixed("  \"http://www.w3.org/TR/xhtml1/DTD/xhtml1-transitional.dtd\">"),
       Fixed("<html xmlns=\"http://www.w3.org/1999/xhtml\" xml:lang=\"ko\" lang=\"ko\">"),
       Fixed("<head>"),
       Fixed("  <title>Google Vision OCR</title>"),
       Fixed("  <meta http-equiv=\"Content-Type\" content=\"text/html; charset=utf-8\" />"),
       Fixed("</head>"),
       Fixed("<body>"),
       Line("ocr_page", 1, <<0, 0, width, height>>, 0, <<>>) >>

WordStepCountsSkipped(st, word) ==
    LET word_bbox == _get_bbox(Get(word.boundingBox, EmptyDict))
        word_text == JoinText(Get(word.symbols, <<>>))
        counted   == [st EXCEPT !.word_id = @ + 1]
    IN  IF IsBlank(word_text) THEN counted
        ELSE [counted EXCEPT !.lines = Append(@,
                  Line("ocrx_word", counted.word_id, word_bbox, _get_confidence(word),
                       EscapeHtml(word_text)))]

\* Body of `for word in paragraph.get("words", [])`.
WordStep(st, word) ==
    LET word_bbox == _get_bbox(Get(word.boundingBox, EmptyDict))
        word_text == JoinText(Get(word.symbols, <<>>))
    IN  IF IsBlank(word_text) THEN st
        ELSE [st EXCEPT !.word_id = @ + 1,
                        !.lines = Append(@,
                            Line("ocrx_word", st.word_id + 1, word_bbox,
                                 _get_confidence(word), EscapeHtml(word_text)))]

RECURSIVE WordsLoop(_, _)
WordsLoop(st, words) ==
    IF words = <<>> THEN st ELSE WordsLoop(WordStep(st, Head(words)), Tail(words))

ParStepLineOnlyWithWords(st, paragraph) ==
    LET par_bbox == _get_bbox(Get(paragraph.boundingBox, EmptyDict))
        words    == Get(paragraph.words, <<>>)
        opened   == [st EXCEPT !.par_id = @ + 1,
                               !.lines = Append(@, Line("ocr_par", st.par_id + 1, par_bbox, 0, <<>>))]
        lined    == [opened EXCEPT !.line_id = @ + 1,
                                   !.lines = Append(@, Line("ocr_line", st.line_id + 1, par_bbox, 0, <<>>))]
    IN  IF words = <<>>
        THEN [opened EXCEPT !.lines = Append(@, Fixed("      </p>"))]
        ELSE [WordsLoop(lined, words) EXCEPT
                  !.lines = @ \o <<Fixed("        </span>"), Fixed("      </p>")>>]

\* Body of `for paragraph in block.get("paragraphs", [])`.
ParStep(st, paragraph) ==
    LET par_bbox == _get_bbox(Get(paragraph.boundingBox, EmptyDict))
        opened   == [st EXCEPT
                        !.par_id = @ + 1,
                        !.line_id = @ + 1,
                        !.lines = @ \o
                            << Line("ocr_par", st.par_id + 1, par_bbox, 0, <<>>),
                               Line("ocr_line", st.line_id + 1, par_bbox, 0, <<>>) >>]
    IN  [WordsLoop(opened, Get(paragraph.words, <<>>)) EXCEPT
            !.lines = @ \o <<Fixed("        </span>"), Fixed("      </p>")>>]

RECURSIVE ParsLoop(_, _)
ParsLoop(st, paragraphs) ==
    IF paragraphs = <<>> THEN st
    ELSE ParsLoop(ParStep(st, Head(paragraphs)), Tail(paragraphs))

\* Body of `for block in page.get("blocks", [])`.
BlockStep(st, block) ==
    LET block_bbox == _get_bbox(Get(block.boundingBox, EmptyDict))
        opened     == [st EXCEPT
                          !.block_id = @ + 1,
                          !.lines = Append(@, Line("ocr_carea", st.block_id + 1, block_bbox, 0, <<>>))]
    IN  [ParsLoop(opened, Get(block.paragraphs, <<>>)) EXCEPT
            !.lines = Append(@, Fixed("    </div>"))]

RECURSIVE BlocksLoop(_, _)
BlocksLoop(st, blocks) ==
    IF blocks = <<>> THEN st
    ELSE BlocksLoop(BlockStep(st, Head(blocks)), Tail(blocks))

\* [exc, lines]: the exception raised, if any, and the lines joined with "\n".
\* Iterating over a null `blocks` raises TypeError.
_generate_hocr(page, width, height) ==
    IF IsNull(page.blocks) THEN [exc |-> "TypeError", lines |-> <<>>]
    ELSE LET st0 == [lines |-> Preamble(width, height),
                     word_id |-> 0, block_id |-> 0, par_id |-> 0, line_id |-> 0]
             st  == BlocksLoop(st0, Get(page.blocks, <<>>))
         IN  [exc |-> "",
              lines |-> st.lines \o <<Fixed("  </div>"), Fixed("</body>"), Fixed("</html>")>>]

\* ------------------------------------------------ state outside an invocation

NoResponse == [status |-> 0, json |-> FALSE, responses |-> None(<<>>)]

NoFiles == [hocr |-> None(<<>>), text |-> None("")]

NoOutcome == [kind |-> "none", exc |-> "", msg |-> <<"", "">>, result |-> ""]

AdapterIdle ==
    /\ pc = "idle"
    /\ api_key = None("")
    /\ response = NoResponse
    /\ events = <<>>
    /\ files = NoFiles
    /\ outcome = NoOutcome

adapter_vars == <<pc, api_key, response, events, files, outcome>>

\* ------------------------------------------------- inputs of the pure functions

Coords == -1..MaxCoord

CoordOpts == {None(0)} \cup {Some(c) : c \in Coords}

\* The vertices _get_bbox reads: either coordinate missing, negative or not.
ReadVertices == {[x |-> a, y |-> b] : a, b \in CoordOpts}

\* The vertices it does not read: both coordinates present and non-negative.
OtherVertices == {[x |-> Some(a), y |-> Some(b)] : a, b \in 0..MaxCoord}

FillerVertex == [x |-> Some(0), y |-> Some(0)]

VertexLists ==
    {<<>>}
    \cup {<<a>> : a \in ReadVertices}
    \cup {<<a, b>> : a \in ReadVertices, b \in OtherVertices}
    \cup {<<a, b, c>> : a, c \in ReadVertices, b \in OtherVertices}
    \cup {<<a, b, c, d>> : a, c \in ReadVertices, b, d \in OtherVertices}
    \cup {<<a, b, c, d, FillerVertex>> : a, c \in ReadVertices, b, d \in OtherVertices}

\* The quadrilateral (0,0), (10,0), (10,5), (0,5).
ExampleBox ==
    [vertices |-> Some(<< [x |-> Some(0), y |-> Some(0)], [x |-> Some(10), y |-> Some(0)],
                          [x |-> Some(10), y |-> Some(5)], [x |-> Some(0), y |-> Some(5)] >>)]

BoundingBoxes ==
    {EmptyDict, ExampleBox} \cup {[vertices |-> Some(vs)] : vs \in VertexLists}

ConfDecimals == {Dec(k, 100) : k \in 0..100}

ConfOpts == {None(Dec(0, 1))} \cup {Some(d) : d \in ConfDecimals}

ConfSymbols == {[text |-> Some(<<"a">>), confidence |-> c] : c \in ConfOpts}

SeqsUpTo(S, n) == UNION {[1..k -> S] : k \in 0..n}

NoBox == None(EmptyDict)

ConfWords ==
    {[boundingBox |-> NoBox, symbols |-> None(<<>>)]}
    \cup {[boundingBox |-> NoBox, symbols |-> Some(ss)] : ss \in SeqsUpTo(ConfSymbols, MaxSyms)}

Alphabet == {"&", "<", ">", "\"", "l", "t", ";", " "}

Texts == SeqsUpTo(Alphabet, MaxLen)

\* ------------------------------------------------------- _get_bbox, applied

InitBbox ==
    /\ AdapterIdle
    /\ fn = "_get_bbox"
    /\ arg \in BoundingBoxes
    /\ ret = None(<<>>)

ApplyGetBbox ==
    /\ fn = "_get_bbox"
    /\ ~ret.has
    /\ ret' = Some(_get_bbox(arg))
    /\ UNCHANGED <<adapter_vars, fn, arg>>

SpecBbox == InitBbox /\ [][ApplyGetBbox]_vars

\* -------------------------------------------------- _get_confidence, applied

InitConf ==
    /\ AdapterIdle
    /\ fn = "_get_confidence"
    /\ arg \in ConfWords
    /\ ret = None(0)

ApplyGetConfidence ==
    /\ fn = "_get_confidence"
    /\ ~ret.has
    /\ ret' = Some(_get_confidence(arg))
    /\ UNCHANGED <<adapter_vars, fn, arg>>

SpecConf == InitConf /\ [][ApplyGetConfidence]_vars

\* ------------------------------------------------------- escaping, applied

InitEscape ==
    /\ AdapterIdle
    /\ fn = "escape"
    /\ arg \in Texts
    /\ ret = None(<<>>)

ApplyEscape ==
    /\ fn = "escape"
    /\ ~ret.has
    /\ ret' = Some(EscapeHtml(arg))
    /\ UNCHANGED <<adapter_vars, fn, arg>>

SpecEscape == InitEscape /\ [][ApplyEscape]_vars

\* ------------------------------------------------- _generate_hocr, applied

Vertex(x, y) == [x |-> Some(x), y |-> Some(y)]

\* The bounding box of an upright rectangle, corners clockwise from top left.
Box(x1, y1, x2, y2) ==
    Some([vertices |-> Some(<<Vertex(x1, y1), Vertex(x2, y1), Vertex(x2, y2), Vertex(x1, y2)>>)])

Symbol(ch, c) == [text |-> Some(<<ch>>), confidence |-> c]

WordHi ==
    [boundingBox |-> Box(0, 0, 4, 5),
     symbols |-> Some(<<Symbol("H", Some(Dec(8, 10))), Symbol("i", Some(Dec(10, 10)))>>)]

WordAmp ==
    [boundingBox |-> NoBox, symbols |-> Some(<<Symbol("&", None(Dec(0, 1)))>>)]

WordBlank ==
    [boundingBox |-> Box(5, 0, 6, 5),
     symbols |-> Some(<<Symbol(" ", Some(Dec(5, 10))), Symbol("\t", Some(Dec(5, 10)))>>)]

WordNoSymbols == [boundingBox |-> Box(7, 0, 9, 5), symbols |-> None(<<>>)]

SampleWords == {WordHi, WordAmp, WordBlank, WordNoSymbols}

BlockBoxes == {NoBox, Box(0, 0, 10, 5)}

ParBoxes == {Box(0, 0, 10, 2), Box(0, 3, 10, 5)}

Paragraphs(block) == Get(block.paragraphs, <<>>)

Words(paragraph) == Get(paragraph.words, <<>>)

\* All paragraphs of the page, in document order.
RECURSIVE AllPars(_)
AllPars(blocks) ==
    IF blocks = <<>> THEN <<>> ELSE Paragraphs(Head(blocks)) \o AllPars(Tail(blocks))

\* All words of the page, in document order.
RECURSIVE AllWords(_)
AllWords(pars) ==
    IF pars = <<>> THEN <<>> ELSE Words(Head(pars)) \o AllWords(Tail(pars))

Blocks(page) == Get(page.blocks, <<>>)

NodeCount(page) ==
    Len(Blocks(page)) + Len(AllPars(Blocks(page))) + Len(AllWords(AllPars(Blocks(page))))

NoResult == [exc |-> "", lines |-> <<>>]

InitTranscode ==
    /\ AdapterIdle
    /\ fn = "_generate_hocr"
    /\ \E size \in {<<None(0), None(0)>>, <<Some(10), Some(5)>>} :
           arg = [width |-> size[1], height |-> size[2], blocks |-> None(<<>>)]
    /\ ret = None(NoResult)

\* The service's response grows by one block, at the end of the page.
AddBlock ==
    /\ fn = "_generate_hocr" /\ ~ret.has
    /\ NodeCount(arg) < MaxNodes
    /\ \E box \in BlockBoxes :
           arg' = [arg EXCEPT !.blocks =
                      Some(Append(Get(@, <<>>), [boundingBox |-> box, paragraphs |-> None(<<>>)]))]
    /\ UNCHANGED <<adapter_vars, fn, ret>>

\* ... by one paragraph, at the end of the last block.
AddParagraph ==
    /\ fn = "_generate_hocr" /\ ~ret.has
    /\ NodeCount(arg) < MaxNodes
    /\ Blocks(arg) # <<>>
    /\ \E box \in ParBoxes :
           LET b == Len(Blocks(arg))
           IN  arg' = [arg EXCEPT !.blocks.v[b].paragraphs =
                          Some(Append(Get(@, <<>>), [boundingBox |-> box, words |-> None(<<>>)]))]
    /\ UNCHANGED <<adapter_vars, fn, ret>>

\* ... by one word, at the end of the last paragraph of the last block.
AddWord ==
    /\ fn = "_generate_hocr" /\ ~ret.has
    /\ NodeCount(arg) < MaxNodes
    /\ Blocks(arg) # <<>>
    /\ Paragraphs(Blocks(arg)[Len(Blocks(arg))]) # <<>>
    /\ \E word \in SampleWords :
           LET b == Len(Blocks(arg))
               p == Len(Paragraphs(Blocks(arg)[b]))
           IN  arg' = [arg EXCEPT !.blocks.v[b].paragraphs.v[p].words =
                          Some(Append(Get(@, <<>>), word))]
    /\ UNCHANGED <<adapter_vars, fn, ret>>

\* generate_hocr lines 83-85 and 92: the page, with its size or the default 1.
Transcode ==
    /\ fn = "_generate_hocr" /\ ~ret.has
    /\ ret' = Some(_generate_hocr(arg, Get(arg.width, 1), Get(arg.height, 1)))
    /\ UNCHANGED <<adapter_vars, fn, arg>>

NextTranscode == AddBlock \/ AddParagraph \/ AddWord \/ Transcode

SpecTranscode == InitTranscode /\ [][NextTranscode]_vars

\* -------------------------------------------------------------- generate_hocr

\* `not api_key`, absent only
KeyMissingOnlyAbsent(key) == ~key.has

\* `not api_key`: the variable is absent or empty.
KeyMissing(key) == ~key.has \/ key.v = ""

Keys == {None(""), Some(""), Some("key")}

PageEmpty == [width |-> None(0), height |-> None(0), blocks |-> None(<<>>)]

PageHello ==
    [width |-> Some(10), height |-> Some(5),
     blocks |-> Some(<< [boundingBox |-> Box(0, 0, 10, 5),
                         paragraphs |-> Some(<< [boundingBox |-> Box(0, 0, 10, 5),
                                                 words |-> Some(<<WordBlank, WordHi>>)] >>)] >>)]

PageNullBlocks == [width |-> Some(10), height |-> Some(5), blocks |-> JsonNull(<<>>)]

SamplePages == {PageEmpty, PageHello, PageNullBlocks}

PagesLists ==
    {None(<<>>), Some(<<>>), Some(<<PageHello, PageEmpty>>)}
    \cup {Some(<<page>>) : page \in SamplePages}

NoAnnotationText == [pages |-> None(<<>>), text |-> None("")]

FullTextAnnotations ==
    {None(NoAnnotationText)}
    \cup {Some([pages |-> pages, text |-> text]) :
              pages \in PagesLists, text \in {None(""), Some("Hi")}}

NoError == [message |-> None("")]

Errors == {None(NoError), Some(NoError), Some([message |-> Some("quota exceeded")])}

Annotations ==
    {[error |-> error, fullTextAnnotation |-> fta] :
        error \in Errors, fta \in FullTextAnnotations}

\* json: whether the body parses; responses: the body's "responses" list.
Responses ==
    {[status |-> status, json |-> FALSE, responses |-> None(<<>>)] : status \in {200, 404, 503}}
    \cup {[status |-> status, json |-> TRUE, responses |-> responses] :
              status \in {200, 404, 503},
              responses \in {None(<<>>), Some(<<>>)} \cup {Some(<<a>>) : a \in Annotations}}

Raised(exc, msg) == [kind |-> "raised", exc |-> exc, msg |-> msg, result |-> ""]

Returned(result) == [kind |-> "returned", exc |-> "", msg |-> <<"", "">>, result |-> result]

\* result.get("responses", [{}])[0], where the list is not empty
Annotation(resp) ==
    Get(resp.responses,
        <<[error |-> None(NoError), fullTextAnnotation |-> None(NoAnnotationText)]>>)[1]

FullText(resp) == Get(Annotation(resp).fullTextAnnotation, NoAnnotationText)

Pages(resp) == Get(FullText(resp).pages, <<>>)

\* Lines 64-77: where the response sends the invocation.  raise_for_status raises
\* for a 4xx or 5xx status; response.json() raises for a body that is no JSON;
\* [0] raises for an empty list.
Decide(resp) ==
    IF resp.status >= 400 THEN Raised("HTTPError", <<"status", "">>)
    ELSE IF ~resp.json THEN Raised("JSONDecodeError", <<"json", "">>)
    ELSE IF Get(resp.responses, <<0>>) = <<>> THEN Raised("IndexError", <<"responses", "">>)
    ELSE IF Annotation(resp).error.has
         THEN Raised("RuntimeError",
                     <<"Vision API", Get(Annotation(resp).error.v.message, "Unknown error")>>)
    ELSE IF Pages(resp) = <<>> THEN Returned("empty")
    ELSE Returned("page")

EmptyHocrZeroSized ==
    << Fixed("<?xml version=\"1.0\" encoding=\"UTF-8\"?>"),
       Fixed("<!DOCTYPE html PUBLIC \"-//W3C//DTD XHTML 1.0 Transitional//EN\""),
       Fixed("  \"http://www.w3.org/TR/xhtml1/DTD/xhtml1-transitional.dtd\">"),
       Fixed("<html xmlns=\"http://www.w3.org/1999/xhtml\">"),
       Fixed("<head><title>Empty</title></head>"),
       Line("<body><div class=\"ocr_page\"></div></body>", 0, <<0, 0, 0, 0>>, 0, <<>>),
       Fixed("</html>") >>

\* The document _write_empty_hocr writes.
EmptyHocr ==
    << Fixed("<?xml version=\"1.0\" encoding=\"UTF-8\"?>"),
       Fixed("<!DOCTYPE html PUBLIC \"-//W3C//DTD XHTML 1.0 Transitional//EN\""),
       Fixed("  \"http://www.w3.org/TR/xhtml1/DTD/xhtml1-transitional.dtd\">"),
       Fixed("<html xmlns=\"http://www.w3.org/1999/xhtml\">"),
       Fixed("<head><title>Empty</title></head>"),
       Line("<body><div class=\"ocr_page\"></div></body>", 0, <<0, 0, 1, 1>>, 0, <<>>),
       Fixed("</html>") >>

Init ==
    /\ AdapterIdle
    /\ fn = "generate_hocr"
    /\ arg = None(0)
    /\ ret = None(0)

Fail(exc, msg) ==
    /\ pc' = "done"
    /\ outcome' = Raised(exc, msg)

\* Lines 43-45: the credential is read and checked.
Invoke ==
    /\ pc = "idle"
    /\ \E key \in Keys :
           /\ api_key' = key
           /\ IF KeyMissing(key)
              THEN Fail("RuntimeError", <<"GOOGLE_VISION_API_KEY", "">>)
              ELSE pc' = "open" /\ UNCHANGED outcome
    /\ UNCHANGED <<response, events, files, fn, arg, ret>>

\* Lines 48-49: the image is read and encoded, or open/read raises.
ReadImage ==
    /\ pc = "open"
    /\ events' = Append(events, "read")
    /\ \E ok \in BOOLEAN :
           IF ok THEN pc' = "post" /\ UNCHANGED outcome ELSE Fail("OSError", <<"read", "">>)
    /\ UNCHANGED <<api_key, response, files, fn, arg, ret>>

\* Line 63: the POST returns a response, or raises (no connection, timeout).
Post ==
    /\ pc = "post"
    /\ events' = Append(events, "post")
    /\ \/ /\ \E resp \in Responses : response' = resp
          /\ pc' = "inspect"
          /\ UNCHANGED outcome
       \/ /\ Fail("ConnectionError", <<"post", "">>)
          /\ UNCHANGED response
    /\ UNCHANGED <<api_key, files, fn, arg, ret>>

\* Lines 64-77: status check, parsing, error check, pages.
Inspect ==
    /\ pc = "inspect"
    /\ IF Decide(response).kind = "raised"
       THEN Fail(Decide(response).exc, Decide(response).msg)
       ELSE /\ pc' = IF Decide(response).result = "empty" THEN "write_empty_hocr" ELSE "write_text"
            /\ UNCHANGED outcome
    /\ UNCHANGED <<api_key, response, events, files, fn, arg, ret>>

\* Line 79: _write_empty_hocr(output_hocr).
WriteEmptyHocr ==
    /\ pc = "write_empty_hocr"
    /\ events' = Append(events, "write_hocr")
    /\ \E ok \in BOOLEAN :
           IF ok
           THEN /\ files' = [files EXCEPT !.hocr = Some(EmptyHocr)]
                /\ pc' = "write_empty_text"
                /\ UNCHANGED outcome
           ELSE Fail("OSError", <<"write_hocr", "">>) /\ UNCHANGED files
    /\ UNCHANGED <<api_key, response, fn, arg, ret>>

\* Lines 80-81: the empty text is written and the call returns.
WriteEmptyText ==
    /\ pc = "write_empty_text"
    /\ events' = Append(events, "write_text")
    /\ \E ok \in BOOLEAN :
           IF ok
           THEN /\ files' = [files EXCEPT !.text = Some("")]
                /\ pc' = "done"
                /\ outcome' = Returned("empty")
           ELSE Fail("OSError", <<"write_text", "">>) /\ UNCHANGED files
    /\ UNCHANGED <<api_key, response, fn, arg, ret>>

\* Lines 83-89: the recognized text is written.
WriteText ==
    /\ pc = "write_text"
    /\ events' = Append(events, "write_text")
    /\ \E ok \in BOOLEAN :
           IF ok
           THEN /\ files' = [files EXCEPT !.text = Some(Get(FullText(response).text, ""))]
                /\ pc' = "write_hocr"
                /\ UNCHANGED outcome
           ELSE Fail("OSError", <<"write_text", "">>) /\ UNCHANGED files
    /\ UNCHANGED <<api_key, response, fn, arg, ret>>

\* Lines 92-93: the first page is transcoded and the markup is written.
WriteHocr ==
    /\ pc = "write_hocr"
    /\ LET page == Pages(response)[1]
           hocr == _generate_hocr(page, Get(page.width, 1), Get(page.height, 1))
       IN  IF hocr.exc # ""
           THEN Fail(hocr.exc, <<"transcode", "">>) /\ UNCHANGED <<events, files>>
           ELSE /\ events' = Append(events, "write_hocr")
                /\ \E ok \in BOOLEAN :
                       IF ok
                       THEN /\ files' = [files EXCEPT !.hocr = Some(hocr.lines)]
                            /\ pc' = "done"
                            /\ outcome' = Returned("page")
                       ELSE Fail("OSError", <<"write_hocr", "">>) /\ UNCHANGED files
    /\ UNCHANGED <<api_key, response, fn, arg, ret>>

\* The call is over; the next one gets its own two output paths.
Return ==
    /\ pc = "done"
    /\ pc' = "idle"
    /\ api_key' = None("")
    /\ response' = NoResponse
    /\ events' = <<>>
    /\ files' = NoFiles
    /\ outcome' = NoOutcome
    /\ UNCHANGED <<fn, arg, ret>>

Next ==
    \/ Invoke
    \/ ReadImage
    \/ Post
    \/ Inspect
    \/ WriteEmptyHocr
    \/ WriteEmptyText
    \/ WriteText
    \/ WriteHocr
    \/ Return

Spec == Init /\ [][Next]_vars

\* ================================================================== claims

LinesOf(lines, tag) == SelectSeq(lines, LAMBDA l : l.tag = tag)

NonBlank(words) == SelectSeq(words, LAMBDA w : ~IsBlank(JoinText(Get(w.symbols, <<>>))))

BoxOf(node) == _get_bbox(Get(node.boundingBox, EmptyDict))

Transcoded == fn = "_generate_hocr" /\ ret.has /\ ret.v.exc = ""

NodeTags == {"ocr_carea", "ocr_par", "ocr_line", "ocrx_word"}

Count(seq, x) == Cardinality({i \in 1..Len(seq) : seq[i] = x})

Ended == pc = "done"

\* C1: an invocation that ends by raising has written neither output file,
\* whatever the step that raised; an invocation that returns has written both.
C1_FailureWritesNothing ==
    /\ (Ended /\ outcome.kind = "raised") => (~files.hocr.has /\ ~files.text.has)
    /\ (Ended /\ outcome.kind = "returned") => (files.hocr.has /\ files.text.has)

ConfigError == Raised("RuntimeError", <<"GOOGLE_VISION_API_KEY", "">>)

\* C2: with the credential variable absent or empty the invocation ends with
\* the configuration error and has no effect at all: the image is not read,
\* nothing is posted, no file is written.
C2_MissingCredentialNoEffects ==
    (pc # "idle" /\ (~api_key.has \/ api_key.v = "")) =>
        /\ Ended
        /\ outcome = ConfigError
        /\ events = <<>>
        /\ files = NoFiles
        /\ response = NoResponse

\* The variable is set, to the empty string.
C2_Witness ==
    /\ Ended
    /\ api_key = Some("")
    /\ outcome = ConfigError
    /\ events = <<>>

Received == response # NoResponse

HasError(resp) ==
    resp.responses.has /\ resp.responses.v # <<>> /\ resp.responses.v[1].error.has

HasPages(resp) ==
    /\ resp.responses.has /\ resp.responses.v # <<>>
    /\ resp.responses.v[1].fullTextAnnotation.has
    /\ resp.responses.v[1].fullTextAnnotation.v.pages.has
    /\ resp.responses.v[1].fullTextAnnotation.v.pages.v # <<>>

\* C3: once the POST has returned, the invocation ends in exactly one of four
\* results, decided in this order: a non-success status is a transport error;
\* else an error object in the first entry is a remote-service error with the
\* service's message, detected pages or not; else no detected pages is success
\* with the empty outputs; else success with the first page transcoded.  The
\* two errors write no file, and there is one POST.
C3_FourOutcomesInOrder ==
    (Ended /\ Received) =>
        /\ Count(events, "post") = 1
        /\ IF response.status >= 400
           THEN outcome.kind = "raised" /\ outcome.exc = "HTTPError" /\ files = NoFiles
           ELSE IF HasError(response)
           THEN /\ outcome.kind = "raised" /\ outcome.exc = "RuntimeError"
                /\ outcome.msg[1] = "Vision API"
                /\ response.responses.v[1].error.v.message.has
                       => outcome.msg[2] = response.responses.v[1].error.v.message.v
                /\ files = NoFiles
           ELSE IF ~HasPages(response)
           THEN outcome = Returned("empty")
           ELSE /\ outcome = Returned("page")
                /\ LET page == response.responses.v[1].fullTextAnnotation.v.pages.v[1]
                   IN  files.hocr
                           = Some(_generate_hocr(page, Get(page.width, 1), Get(page.height, 1)).lines)

\* The first response entry, given or defaulted, has no error and no pages.
NoDetection ==
    /\ Received
    /\ response.status < 400
    /\ response.json
    /\ ~(response.responses.has /\ response.responses.v = <<>>)
    /\ ~HasError(response)
    /\ ~HasPages(response)

PageContainers(lines) ==
    SelectSeq(lines, LAMBDA l : l.tag \in {"ocr_page", "<body><div class=\"ocr_page\"></div></body>"})

NoNodes(lines) == \A i \in 1..Len(lines) : lines[i].tag \notin NodeTags

\* The document has one page container, of this width and height, and no
\* block, paragraph, line or word node.
EmptyDocument(lines, width, height) ==
    /\ Len(PageContainers(lines)) = 1
    /\ PageContainers(lines)[1].bbox[3] - PageContainers(lines)[1].bbox[1] = width
    /\ PageContainers(lines)[1].bbox[4] - PageContainers(lines)[1].bbox[2] = height
    /\ NoNodes(lines)

\* No file write of the invocation failed.
WritesSucceeded == ~(outcome.kind = "raised" /\ outcome.exc = "OSError")

C5_SequentialIds ==
    Transcoded =>
        /\ \A tag \in NodeTags :
               \A k \in 1..Len(LinesOf(ret.v.lines, tag)) : LinesOf(ret.v.lines, tag)[k].id = k
        /\ Len(LinesOf(ret.v.lines, "ocrx_word"))
               = Len(NonBlank(AllWords(AllPars(Blocks(arg)))))

\* A page whose first word is skipped and is followed by two emitted words.
C5_Witness ==
    /\ Transcoded
    /\ Len(AllWords(AllPars(Blocks(arg)))) = 3
    /\ IsBlank(JoinText(Get(AllWords(AllPars(Blocks(arg)))[1].symbols, <<>>)))
    /\ Len(LinesOf(ret.v.lines, "ocrx_word")) = 2
    /\ LinesOf(ret.v.lines, "ocrx_word")[2].id = 2

\* Position in lines of the node with this tag and id.
At(lines, tag, k) == CHOOSE i \in 1..Len(lines) : lines[i].tag = tag /\ lines[i].id = k

\* Lines a paragraph takes: its container, its line, its emitted words, two closers.
ParSpan(paragraph) == 4 + Len(NonBlank(Words(paragraph)))

RECURSIVE ParsSpan(_)
ParsSpan(pars) == IF pars = <<>> THEN 0 ELSE ParSpan(Head(pars)) + ParsSpan(Tail(pars))

\* The element a line opens (""), the element it closes, or neither.
Opens(l) ==
    CASE l.tag = "<html xmlns=\"http://www.w3.org/1999/xhtml\" xml:lang=\"ko\" lang=\"ko\">" -> "html"
      [] l.tag = "<body>" -> "body"
      [] l.tag = "ocr_page" -> "page"
      [] l.tag = "ocr_carea" -> "block"
      [] l.tag = "ocr_par" -> "par"
      [] l.tag = "ocr_line" -> "line"
      [] OTHER -> ""

Closes(l) ==
    CASE l.tag = "        </span>" -> "line"
      [] l.tag = "      </p>" -> "par"
      [] l.tag = "    </div>" -> "block"
      [] l.tag = "  </div>" -> "page"
      [] l.tag = "</body>" -> "body"
      [] l.tag = "</html>" -> "html"
      [] OTHER -> ""

Parent(element) ==
    CASE element = "html" -> ""
      [] element = "body" -> "html"
      [] element = "page" -> "body"
      [] element = "block" -> "page"
      [] element = "par" -> "block"
      [] element = "line" -> "par"

Top(stack) == IF stack = <<>> THEN "" ELSE stack[Len(stack)]

\* Every element opens inside its parent, every closer closes the innermost open
\* element, word leaves lie in a line, and nothing is left open.
RECURSIVE WellNested(_, _)
WellNested(lines, stack) ==
    IF lines = <<>> THEN stack = <<>>
    ELSE LET l == Head(lines)
         IN  IF Opens(l) # ""
             THEN Top(stack) = Parent(Opens(l)) /\ WellNested(Tail(lines), Append(stack, Opens(l)))
             ELSE IF Closes(l) # ""
             THEN Top(stack) = Closes(l)
                  /\ WellNested(Tail(lines), SubSeq(stack, 1, Len(stack) - 1))
             ELSE IF l.tag = "ocrx_word"
             THEN Top(stack) = "line" /\ WellNested(Tail(lines), stack)
             ELSE WellNested(Tail(lines), stack)

\* C6: the markup is a well-nested traversal of the page in source order: one
\* block container per block, one paragraph container per paragraph, each
\* holding one line container with the paragraph's bounding box and, inside it,
\* the paragraph's emitted words in order; closers in reverse nesting order;
\* an empty list yields no children but the parent is opened and closed.
C6_WellNestedTraversal ==
    Transcoded =>
        LET lines  == ret.v.lines
            blocks == Blocks(arg)
            pars   == AllPars(blocks)
        IN  /\ WellNested(lines, <<>>)
            /\ Len(LinesOf(lines, "ocr_carea")) = Len(blocks)
            /\ Len(LinesOf(lines, "ocr_par")) = Len(pars)
            /\ Len(LinesOf(lines, "ocr_line")) = Len(pars)
            /\ \A k \in 1..Len(blocks) :
                   LET i == At(lines, "ocr_carea", k)
                   IN  /\ lines[i].bbox = BoxOf(blocks[k])
                       /\ lines[i + 1 + ParsSpan(Paragraphs(blocks[k]))].tag = "    </div>"
                       /\ \A j \in 1..Len(Paragraphs(blocks[k])) :
                              LET before == ParsSpan(SubSeq(Paragraphs(blocks[k]), 1, j - 1))
                              IN  /\ lines[i + 1 + before].tag = "ocr_par"
                                  /\ lines[i + 1 + before].bbox = BoxOf(Paragraphs(blocks[k])[j])
            /\ \A k \in 1..Len(pars) :
                   LET i     == At(lines, "ocr_par", k)
                       words == NonBlank(Words(pars[k]))
                   IN  /\ lines[i].bbox = BoxOf(pars[k])
                       /\ lines[i + 1].tag = "ocr_line"
                       /\ lines[i + 1].bbox = BoxOf(pars[k])
                       /\ \A j \in 1..Len(words) :
                              /\ lines[i + 1 + j].tag = "ocrx_word"
                              /\ lines[i + 1 + j].bbox = BoxOf(words[j])
                              /\ lines[i + 1 + j].conf = _get_confidence(words[j])
                       /\ lines[i + 2 + Len(words)].tag = "        </span>"
                       /\ lines[i + 3 + Len(words)].tag = "      </p>"

\* An empty block, then a block with an empty paragraph and a paragraph of one
\* skipped and one emitted word.
C6_Witness ==
    /\ Transcoded
    /\ Len(Blocks(arg)) = 2
    /\ Paragraphs(Blocks(arg)[1]) = <<>>
    /\ Len(Paragraphs(Blocks(arg)[2])) = 2
    /\ Words(Paragraphs(Blocks(arg)[2])[1]) = <<>>
    /\ Len(Words(Paragraphs(Blocks(arg)[2])[2])) = 1
    /\ Len(LinesOf(ret.v.lines, "ocr_line")) = 2
    /\ Len(LinesOf(ret.v.lines, "ocrx_word")) = 1

\* A coordinate as emitted: 0 when missing, 0 when negative.
Emitted(c) == IF ~c.has THEN 0 ELSE IF c.v < 0 THEN 0 ELSE c.v

BboxCalled == fn = "_get_bbox" /\ ret.has

\* C7: for at least four vertices the bbox is x1 y1 x2 y2 with (x1, y1) from the
\* first vertex and (x2, y2) from the third, a missing coordinate read as 0 and a
\* negative one clamped to 0; for fewer than four vertices, or no list, it is
\* 0 0 0 0; every coordinate emitted is a non-negative integer.
C7_BboxFirstAndThird ==
    BboxCalled =>
        LET vs == Get(arg.vertices, <<>>)
        IN  /\ Len(vs) >= 4 =>
                   ret.v = <<Emitted(vs[1].x), Emitted(vs[1].y), Emitted(vs[3].x), Emitted(vs[3].y)>>
            /\ Len(vs) < 4 => ret.v = <<0, 0, 0, 0>>
            /\ \A i \in 1..4 : ret.v[i] \in Nat
            /\ arg = ExampleBox => ret.v = <<0, 0, 10, 5>>

\* Five vertices, the first without x, the third with a negative y.
C7_Witness ==
    /\ BboxCalled
    /\ arg.vertices.has
    /\ Len(arg.vertices.v) = 5
    /\ ~arg.vertices.v[1].x.has
    /\ arg.vertices.v[1].y = Some(1)
    /\ arg.vertices.v[3].x = Some(1)
    /\ arg.vertices.v[3].y = Some(-1)
    /\ arg.vertices.v[2] # arg.vertices.v[3]
    /\ ret.v = <<0, 1, 1, 0>>

SetMin(S) == CHOOSE x \in S : \A y \in S : x <= y

SetMax(S) == CHOOSE x \in S : \A y \in S : x >= y

\* The corners of an upright rectangle, clockwise, starting at any corner: the
\* box of text rotated by 0, 90, 180 or 270 degrees.
RectangleCycles ==
    {<<Vertex(a[1], a[2]), Vertex(b[1], b[2]), Vertex(c[1], c[2]), Vertex(d[1], d[2])>> :
        <<a, b, c, d>> \in
            UNION {{<<<<x1, y1>>, <<x2, y1>>, <<x2, y2>>, <<x1, y2>>>>,
                    <<<<x2, y1>>, <<x2, y2>>, <<x1, y2>>, <<x1, y1>>>>,
                    <<<<x2, y2>>, <<x1, y2>>, <<x1, y1>>, <<x2, y1>>>>,
                    <<<<x1, y2>>, <<x1, y1>>, <<x2, y1>>, <<x2, y2>>>>} :
                   <<x1, x2, y1, y2>> \in
                       {q \in (0..MaxCoord) \X (0..MaxCoord) \X (0..MaxCoord) \X (0..MaxCoord) :
                           q[1] < q[2] /\ q[3] < q[4]}}}

\* C8: for every four-vertex quadrilateral with non-negative coordinates (here:
\* the corners of a rectangle, from any starting corner) the bbox is the
\* smallest axis-aligned rectangle containing the four corners: x1, y1 the
\* minima and x2, y2 the maxima, so x1 <= x2 and y1 <= y2.
C8_BboxIsSmallestRectangle ==
    (BboxCalled /\ arg.vertices.has /\ arg.vertices.v \in RectangleCycles)
    => LET xs == {arg.vertices.v[i].x.v : i \in 1..4}
           ys == {arg.vertices.v[i].y.v : i \in 1..4}
       IN  ret.v = <<SetMin(xs), SetMin(ys), SetMax(xs), SetMax(ys)>>

\* A confidence literal in hundredths (the literals of the model have
\* denominator 1, 10 or 100).
Hundredths(c) == (c.n * 100) \div c.d

RECURSIVE SumHundredths(_)
SumHundredths(symbols) ==
    IF symbols = <<>> THEN 0
    ELSE Hundredths(Get(Head(symbols).confidence, Dec(9, 10))) + SumHundredths(Tail(symbols))

\* C9: x_wconf is an integer in 0..100, equal to the mean of the symbols'
\* confidences (a missing one counting as 0.9) scaled by 100 and truncated; a
\* word without symbols yields 90.
C9_ConfidenceIsTruncatedMean ==
    (fn = "_get_confidence" /\ ret.has) =>
        LET symbols == Get(arg.symbols, <<>>)
        IN  /\ ret.v \in 0..100
            /\ symbols = <<>> => ret.v = 90
            /\ symbols # <<>> => ret.v = SumHundredths(symbols) \div Len(symbols)

Entity(ch) ==
    CASE ch = "&" -> AmpEntity
      [] ch = "<" -> LtEntity
      [] ch = ">" -> GtEntity
      [] ch = "\"" -> QuotEntity
      [] OTHER -> <<ch>>

\* Each character replaced by its entity, in one pass.
RECURSIVE EscapeEach(_)
EscapeEach(t) == IF t = <<>> THEN <<>> ELSE Entity(Head(t)) \o EscapeEach(Tail(t))

Entities == {AmpEntity, LtEntity, GtEntity, QuotEntity}

StartsWith(s, prefix) == Len(s) >= Len(prefix) /\ SubSeq(s, 1, Len(prefix)) = prefix

\* Each entity replaced back by its character, in one pass.
RECURSIVE Unescape(_)
Unescape(s) ==
    IF s = <<>> THEN <<>>
    ELSE IF StartsWith(s, AmpEntity) THEN <<"&">> \o Unescape(SubSeq(s, 6, Len(s)))
    ELSE IF StartsWith(s, LtEntity) THEN <<"<">> \o Unescape(SubSeq(s, 5, Len(s)))
    ELSE IF StartsWith(s, GtEntity) THEN <<">">> \o Unescape(SubSeq(s, 5, Len(s)))
    ELSE IF StartsWith(s, QuotEntity) THEN <<"\"">> \o Unescape(SubSeq(s, 7, Len(s)))
    ELSE <<Head(s)>> \o Unescape(Tail(s))

\* C10: the emitted text is the word text with & < > " each replaced by its
\* entity and nothing else changed: each character is escaped once, no raw
\* < > " remains, every & starts an entity, and replacing the entities back
\* yields the word text.
C10_EscapedOnce ==
    (fn = "escape" /\ ret.has) =>
        /\ ret.v = EscapeEach(arg)
        /\ \A i \in 1..Len(ret.v) :
               /\ ret.v[i] \notin {"<", ">", "\""}
               /\ ret.v[i] = "&" =>
                      \E entity \in Entities : StartsWith(SubSeq(ret.v, i, Len(ret.v)), entity)
        /\ Unescape(ret.v) = arg

\* A word text that already reads as an entity, "&lt;", followed by a raw <.
C10_Witness ==
    /\ fn = "escape" /\ ret.has
    /\ arg = <<"&", "l", "t", "<">>
    /\ ret.v = <<"&", "a", "m", "p", ";", "l", "t", "&", "l", "t", ";">>

====
